---------------------------- MODULE Spec2Model ----------------------------
(***************************************************************************)
(* Model of the movie recommender backend (src/recommender.py, src/main.py, *)
(* src/models.py, src/db.py).                                               *)
(*                                                                          *)
(* State: the two MongoDB collections likes / dislikes (multisets of        *)
(* {user_id, tmdb_id} documents), the in-memory catalog movies_df, the      *)
(* tie order of the build's unstable single-column sort, and the response   *)
(* of the call that has just completed (resp).  Calls run one at a time: a  *)
(* call is made when no response is pending, and Respond hands the pending  *)
(* response back to the caller.                                             *)
(*                                                                          *)
(* SpecConc is the same store under two overlapping calls, like_movie(u, m) *)
(* and dislike_movie(u, m), each store call one atomic step (conc holds the *)
(* pair and each call's position).                                          *)
(***************************************************************************)
EXTENDS Integers, Sequences, FiniteSets, TLC

VARIABLES likes_collection, dislikes_collection, movies_df, sort_kind, resp, conc

vars == <<likes_collection, dislikes_collection, movies_df, sort_kind, resp, conc>>

-----------------------------------------------------------------------------
(* Bounds of the model.                                                     *)

\* largest page number a caller asks for (pages are 1-based, Query(ge=1))
MaxPage == 3
\* largest page_size a caller asks for (Query(ge=1))
MaxPageSize == 2

Pages == 1..MaxPage
PageSizes == 1..MaxPageSize

\* authenticated users (the payload of a valid token)
Users == {"u1", "u2"}
\* user_id = None inside search_movies
None == "None"

-----------------------------------------------------------------------------
(* Strings are sequences of characters, so that lower() and substring       *)
(* search are computed and not assumed.                                     *)

LowerChar(c) ==
    CASE c = "A" -> "a" [] c = "M" -> "m" [] c = "N" -> "n" [] c = "R" -> "r"
      [] c = "T" -> "t" [] c = "I" -> "i" [] c = "X" -> "x" [] c = "O" -> "o"
      [] OTHER -> c

\* str.lower()
Lower(s) == [i \in 1..Len(s) |-> LowerChar(s[i])]

\* needle in hay  (also Series.str.contains for a pattern without regex
\* metacharacters, which is all the queries below are)
Contains(hay, needle) ==
    \E i \in 0..(Len(hay) - Len(needle)) :
        SubSeq(hay, i + 1, i + Len(needle)) = needle

RECURSIVE JoinQuoted(_)
\* the elements of a list as str() prints them: 'a', 'b'
JoinQuoted(gs) ==
    IF gs = <<>> THEN <<>>
    ELSE <<"'">> \o Head(gs) \o <<"'">>
         \o (IF Len(gs) > 1 THEN <<",", " ">> ELSE <<>>) \o JoinQuoted(Tail(gs))

\* str(x) of a list of strings
StrOfList(gs) == <<"[">> \o JoinQuoted(gs) \o <<"]">>

-----------------------------------------------------------------------------
(* The catalog artifact data/content_model.pkl: movies_df and the aligned   *)
(* tfidf_matrix (one feature vector per row).                               *)

Catalog ==
    << [tmdb_id |-> 11,
        title |-> <<"T","h","e"," ","M","a","t","r","i","x">>,
        genres |-> << <<"A","c","t","i","o","n">> >>,
        vote_count |-> 900, vote_average |-> 87, release_date |-> 1999],
       [tmdb_id |-> 22,
        title |-> <<"M","a","t","r","i","x"," ","R","e","l","o","a","d","e","d">>,
        genres |-> << <<"A","c","t","i","o","n">> >>,
        vote_count |-> 900, vote_average |-> 70, release_date |-> 2003],
       [tmdb_id |-> 33,
        title |-> <<"N","o","t","e","b","o","o","k">>,
        genres |-> << <<"R","o","m","a","n","c","e">> >>,
        vote_count |-> 950, vote_average |-> 78, release_date |-> 2004] >>

\* one row per movie, aligned with Catalog by position
tfidf_matrix == << <<2, 0>>, <<1, 1>>, <<0, 2>> >>

\* tmdb_ids a caller may send that are in no row of the catalog
UnknownIds == {99}

RowIdx == 1..Len(movies_df)
CatalogIds == {movies_df[i].tmdb_id : i \in RowIdx}
TmdbIds == {Catalog[i].tmdb_id : i \in 1..Len(Catalog)} \cup UnknownIds

\* search terms a caller sends (each at least 2 characters, Query(min_length=2))
Queries == { <<"M","A","T","R","I","X">>, <<"r","o","m">>, <<"(","(">> }
Scopes == {"all", "liked", "disliked", "recommended"}

-----------------------------------------------------------------------------
(* db.py: a collection is a multiset of documents {user_id, tmdb_id}.       *)

Docs == Users \X TmdbIds
EmptyCollection == [d \in Docs |-> 0]

\* faulty variant of update_one_upsert: insert_one, which adds a document
\* whether or not one matches
insert_one(coll, u, m) == [coll EXCEPT ![<<u, m>>] = @ + 1]

\* collection.update_one(filter, {"$set": same fields}, upsert=True)
update_one_upsert(coll, u, m) ==
    IF coll[<<u, m>>] > 0 THEN coll ELSE [coll EXCEPT ![<<u, m>>] = 1]

\* collection.delete_one(filter).deleted_count
deleted_count(coll, u, m) == IF coll[<<u, m>>] > 0 THEN 1 ELSE 0

\* faulty variant of delete_one: the delete is left out
delete_none(coll, u, m) == coll

\* collection.delete_one(filter)
delete_one(coll, u, m) ==
    [coll EXCEPT ![<<u, m>>] = @ - deleted_count(coll, u, m)]

\* [entry["tmdb_id"] for entry in collection.find({"user_id": user_id})]
find_tmdb_ids(coll, user_id) ==
    {d[2] : d \in {e \in Docs : e[1] = user_id /\ coll[e] > 0}}

-----------------------------------------------------------------------------
(* The response of a call.  Fields a call does not set keep NoResp's value. *)

NoResp ==
    [op |-> "idle", status |-> "-", msg |-> "-", user |-> "-", tmdb_id |-> 0,
     query |-> <<>>, scope |-> "-", page |-> 0, page_size |-> 0,
     movies |-> <<>>, scores |-> <<>>, total_results |-> 0, total_pages |-> 0]

Idle == resp.op = "idle"

\* no overlapping calls in flight
NoConc == [user |-> "-", tmdb_id |-> 0, like_pc |-> "idle", dislike_pc |-> "idle"]

-----------------------------------------------------------------------------
(* recommender.py: the preference mutations.  Each returns the two          *)
(* collections as the call leaves them, the exception it raised ("none" if  *)
(* it returned) and the kind of message it returned.                        *)

\* faulty variant of like_movie: the catalog check is left out
like_movie_unchecked(L, D, user_id, tmdb_id) ==
    [likes |-> update_one_upsert(L, user_id, tmdb_id),
     dislikes |-> delete_one(D, user_id, tmdb_id),
     raised |-> "none", msg |-> "liked"]

like_movie(L, D, user_id, tmdb_id) ==
    IF tmdb_id \notin CatalogIds
    THEN [likes |-> L, dislikes |-> D, raised |-> "ValueError", msg |-> "not_found_in_movies"]
    ELSE [likes |-> update_one_upsert(L, user_id, tmdb_id),
          dislikes |-> delete_one(D, user_id, tmdb_id),
          raised |-> "none", msg |-> "liked"]

dislike_movie(L, D, user_id, tmdb_id) ==
    IF tmdb_id \notin CatalogIds
    THEN [likes |-> L, dislikes |-> D, raised |-> "ValueError", msg |-> "not_found_in_movies"]
    ELSE [likes |-> delete_one(L, user_id, tmdb_id),
          dislikes |-> update_one_upsert(D, user_id, tmdb_id),
          raised |-> "none", msg |-> "disliked"]

\* faulty variant of undislike_movie: it raises when nothing was deleted
undislike_movie_raising(L, D, user_id, tmdb_id) ==
    IF tmdb_id \notin CatalogIds \/ deleted_count(D, user_id, tmdb_id) = 0
    THEN [likes |-> L, dislikes |-> D, raised |-> "ValueError", msg |-> "not_found_in_movies"]
    ELSE [likes |-> L, dislikes |-> delete_one(D, user_id, tmdb_id),
          raised |-> "none", msg |-> "undid_dislike"]

undislike_movie(L, D, user_id, tmdb_id) ==
    IF tmdb_id \notin CatalogIds
    THEN [likes |-> L, dislikes |-> D, raised |-> "ValueError", msg |-> "not_found_in_movies"]
    ELSE [likes |-> L,
          dislikes |-> delete_one(D, user_id, tmdb_id),
          raised |-> "none",
          msg |-> IF deleted_count(D, user_id, tmdb_id) > 0
                  THEN "undid_dislike" ELSE "not_in_disliked_list"]

\* a direct call of one of the three functions of recommender.py
CoreCall(op, r, user_id, tmdb_id) ==
    /\ likes_collection' = r.likes
    /\ dislikes_collection' = r.dislikes
    /\ resp' = [NoResp EXCEPT !.op = op, !.user = user_id, !.tmdb_id = tmdb_id,
                              !.status = IF r.raised = "none" THEN "returned" ELSE r.raised,
                              !.msg = r.msg]
    /\ UNCHANGED <<movies_df, sort_kind, conc>>

Call_like_movie ==
    /\ Idle
    /\ \E u \in Users, m \in TmdbIds :
        CoreCall("like_movie", like_movie(likes_collection, dislikes_collection, u, m), u, m)

Call_dislike_movie ==
    /\ Idle
    /\ \E u \in Users, m \in TmdbIds :
        CoreCall("dislike_movie", dislike_movie(likes_collection, dislikes_collection, u, m), u, m)

Call_undislike_movie ==
    /\ Idle
    /\ \E u \in Users, m \in TmdbIds :
        CoreCall("undislike_movie", undislike_movie(likes_collection, dislikes_collection, u, m), u, m)

-----------------------------------------------------------------------------
(* models.py and main.py: the /like, /dislike and /undislike routes.        *)

\* the fields LikeRequest declares
LikeRequestFields == {"user_id", "movie_title"}

\* the JSON bodies a client sends for (user, movie): with every declared
\* field and the tmdb_id, or the tmdb_id alone with the user
Bodies(u, m) ==
    { [user_id |-> u, movie_title |-> "title", tmdb_id |-> m],
      [user_id |-> u, tmdb_id |-> m] }

\* LikeRequest(**body): a missing declared field fails validation; a field
\* the model does not declare is dropped
LikeRequest(body) ==
    IF LikeRequestFields \subseteq DOMAIN body
    THEN [valid |-> TRUE, fields |-> LikeRequestFields]
    ELSE [valid |-> FALSE, fields |-> {}]

\* the body of a mutation route: try core(user_id, req.tmdb_id, ...)
\*   except ValueError -> 404, except Exception -> 500
MutationRoute(op, body, user_id, r) ==
    LET req == LikeRequest(body) IN
    /\ IF ~req.valid
       THEN \* rejected by request validation before the handler runs
            /\ resp' = [NoResp EXCEPT !.op = op, !.user = user_id,
                                      !.tmdb_id = body.tmdb_id, !.status = "422",
                                      !.msg = "validation_error"]
            /\ UNCHANGED <<likes_collection, dislikes_collection>>
       ELSE IF "tmdb_id" \notin req.fields
       THEN \* req.tmdb_id raises AttributeError before the core is called
            /\ resp' = [NoResp EXCEPT !.op = op, !.user = user_id,
                                      !.tmdb_id = body.tmdb_id, !.status = "500",
                                      !.msg = "unexpected_error"]
            /\ UNCHANGED <<likes_collection, dislikes_collection>>
       ELSE /\ likes_collection' = r.likes
            /\ dislikes_collection' = r.dislikes
            /\ resp' = [NoResp EXCEPT !.op = op, !.user = user_id,
                                      !.tmdb_id = body.tmdb_id,
                                      !.status = IF r.raised = "none" THEN "200" ELSE "404",
                                      !.msg = r.msg]
    /\ UNCHANGED <<movies_df, sort_kind, conc>>

like ==
    /\ Idle
    /\ \E u \in Users, m \in TmdbIds : \E body \in Bodies(u, m) :
        MutationRoute("like", body, u,
                      like_movie(likes_collection, dislikes_collection, u, m))

dislike ==
    /\ Idle
    /\ \E u \in Users, m \in TmdbIds : \E body \in Bodies(u, m) :
        MutationRoute("dislike", body, u,
                      dislike_movie(likes_collection, dislikes_collection, u, m))

undislike ==
    /\ Idle
    /\ \E u \in Users, m \in TmdbIds : \E body \in Bodies(u, m) :
        MutationRoute("undislike", body, u,
                      undislike_movie(likes_collection, dislikes_collection, u, m))

-----------------------------------------------------------------------------
(* Pagination, as every list-shaped operation computes it.                  *)

\* math.ceil(a / b) for a >= 0, b > 0 (a / b is a float; for operands of
\* catalog size its ceiling is the integer ceiling)
math_ceil(a, b) == IF a % b = 0 THEN a \div b ELSE (a \div b) + 1

\* math.ceil(total / page_size) if total > 0 else 0
total_pages_of(total, page_size) ==
    IF total > 0 THEN math_ceil(total, page_size) ELSE 0

\* df.iloc[start:end] for 0 <= start <= end
iloc(rows, start, end) ==
    IF start >= Len(rows) THEN <<>>
    ELSE SubSeq(rows, start + 1, IF end < Len(rows) THEN end ELSE Len(rows))

\* faulty variant of page_slice: the slice starts one page late
\* (start = page * page_size)
page_slice_late(rows, page, page_size) ==
    iloc(rows, page * page_size, page * page_size + page_size)

\* start = (page - 1) * page_size; end = start + page_size; df.iloc[start:end]
page_slice(rows, page, page_size) ==
    iloc(rows, (page - 1) * page_size, (page - 1) * page_size + page_size)

\* the {movies, total_results, total_pages, page, page_size} dictionary; rows
\* are row positions of movies_df and a returned movie is named by its tmdb_id
paged_result(rows, page, page_size) ==
    LET paged == page_slice(rows, page, page_size) IN
    [movies |-> [k \in 1..Len(paged) |-> movies_df[paged[k]].tmdb_id],
     total_results |-> Len(rows),
     total_pages |-> total_pages_of(Len(rows), page_size),
     page |-> page, page_size |-> page_size]

-----------------------------------------------------------------------------
(* Data-frame helpers: a frame is a sequence of row positions of movies_df. *)

\* the whole frame, in catalog order
AllRows == [i \in RowIdx |-> i]

\* df[mask]: the rows whose mask is set (the rows in keep), in their order
Filter(rows, keep) == SelectSeq(rows, LAMBDA i : i \in keep)

\* the rows ordered by a strict total order, given as the set of the pairs
\* <<i, j>> with i before j
SortRows(rows, before) ==
    LET S == {rows[k] : k \in 1..Len(rows)} IN
    [k \in 1..Len(rows) |->
        CHOOSE i \in S : Cardinality({j \in S : <<j, i>> \in before}) = k - 1]

-----------------------------------------------------------------------------
(* recommender.py: recommend_content_based.                                 *)

VecIdx == 1..Len(tfidf_matrix[1])

RECURSIVE SumOver(_, _)
\* the sum of component k of the feature vectors of the rows in S
SumOver(S, k) ==
    IF S = {} THEN 0
    ELSE LET i == CHOOSE x \in S : TRUE IN tfidf_matrix[i][k] + SumOver(S \ {i}, k)

RECURSIVE Dot(_, _, _)
\* a . b over the first n components
Dot(a, b, n) == IF n = 0 THEN 0 ELSE a[n] * b[n] + Dot(a, b, n - 1)

\* faulty variant of user_profile_vector: the disliked centroid is not
\* subtracted
user_profile_vector_liked_only(liked_indices, disliked_indices) ==
    [k \in VecIdx |-> SumOver(liked_indices, k)]

\* liked_vectors.mean(axis=0) [- disliked_vectors.mean(axis=0)], multiplied by
\* the positive factor |liked| * |disliked| (|liked| when nothing is disliked)
\* to stay in the integers: cosine similarity does not change under it
user_profile_vector(liked_indices, disliked_indices) ==
    IF disliked_indices # {}
    THEN [k \in VecIdx |->
            Cardinality(disliked_indices) * SumOver(liked_indices, k)
            - Cardinality(liked_indices) * SumOver(disliked_indices, k)]
    ELSE [k \in VecIdx |-> SumOver(liked_indices, k)]

\* x * |x|: keeps the order of x
SignedSquare(x) == IF x >= 0 THEN x * x ELSE 0 - (x * x)

\* cosine_similarity(profile, row i) > cosine_similarity(profile, row j).
\* The score of row i is (p . v_i) / (|p| * |v_i|), and 0 for a zero vector;
\* |p| is common to both sides, so the scores compare as
\* sgn(n_i) * n_i^2 / |v_i|^2 do.
score_greater(profile, i, j) ==
    LET n == Len(tfidf_matrix[1])
        di == Dot(tfidf_matrix[i], tfidf_matrix[i], n)
        dj == Dot(tfidf_matrix[j], tfidf_matrix[j], n)
        ni == IF di = 0 THEN 0 ELSE Dot(profile, tfidf_matrix[i], n)
        nj == IF dj = 0 THEN 0 ELSE Dot(profile, tfidf_matrix[j], n)
    IN  SignedSquare(ni) * (IF dj = 0 THEN 1 ELSE dj)
          > SignedSquare(nj) * (IF di = 0 THEN 1 ELSE di)

\* scores[i] = cosine_similarity(profile, row i), kept exact as the fraction
\* <<numerator, denominator>> of its signed square
\* sgn(p . v) * (p . v)^2 / ((p . p) * (v . v)); 0 when either vector is zero
score(profile, i) ==
    LET n == Len(tfidf_matrix[1])
        pp == Dot(profile, profile, n)
        vv == Dot(tfidf_matrix[i], tfidf_matrix[i], n)
    IN  IF pp * vv = 0 THEN <<0, 1>>
        ELSE <<SignedSquare(Dot(profile, tfidf_matrix[i], n)), pp * vv>>

\* the order of two rows of equal score after
\* sort_values(by="score", ascending=False): the default sort kind is not
\* stable, so a build either keeps catalog order or does not
tie_before(i, j) == IF sort_kind = "stable" THEN i < j ELSE i > j

\* scored_df.sort_values(by="score", ascending=False)
sort_by_score(rows, profile) ==
    SortRows(rows,
        {p \in RowIdx \X RowIdx :
            \/ score_greater(profile, p[1], p[2])
            \/ /\ ~score_greater(profile, p[2], p[1])
               /\ p[1] # p[2]
               /\ tie_before(p[1], p[2])})

\* ~scored_df["tmdb_id"].isin(liked_tmdb_ids + disliked_tmdb_ids)
not_rated(liked_tmdb_ids, disliked_tmdb_ids, i) ==
    movies_df[i].tmdb_id \notin (liked_tmdb_ids \cup disliked_tmdb_ids)

recommend_content_based(L, D, user_id, page, page_size) ==
    LET liked_tmdb_ids == find_tmdb_ids(L, user_id)
        disliked_tmdb_ids == find_tmdb_ids(D, user_id)
        liked_indices == {i \in RowIdx : movies_df[i].tmdb_id \in liked_tmdb_ids}
        disliked_indices == {i \in RowIdx : movies_df[i].tmdb_id \in disliked_tmdb_ids}
        profile == user_profile_vector(liked_indices, disliked_indices)
        keep == {i \in RowIdx : not_rated(liked_tmdb_ids, disliked_tmdb_ids, i)}
        scored_df == sort_by_score(Filter(AllRows, keep), profile)
        paged_df == page_slice(scored_df, page, page_size)
        r == paged_result(scored_df, page, page_size)
    IN  IF liked_tmdb_ids = {}
        THEN [movies |-> <<>>, scores |-> <<>>, total_results |-> 0,
              total_pages |-> 0, page |-> page, page_size |-> page_size]
        ELSE [movies |-> r.movies,
              scores |-> [k \in 1..Len(paged_df) |-> score(profile, paged_df[k])],
              total_results |-> r.total_results, total_pages |-> r.total_pages,
              page |-> r.page, page_size |-> r.page_size]

-----------------------------------------------------------------------------
(* recommender.py: search_movies.                                           *)

\* title.lower() contains query_lower, or query_lower in str(genres).lower()
matches(i, query) ==
    \/ Contains(Lower(movies_df[i].title), Lower(query))
    \/ Contains(Lower(StrOfList(movies_df[i].genres)), Lower(query))

\* .str.contains(query_lower) reads the query as a regular expression: one
\* with an unclosed parenthesis does not compile and re.error is raised
search_raises(query) == \E k \in 1..Len(query) : query[k] = "("

\* search_movies takes no user: for a scoped search it sets user_id = None,
\* leaves 'liked' and 'disliked' unfiltered (pass) and, for 'recommended',
\* excludes the likes and dislikes found for user_id None
search_movies(L, D, query, scope, page, page_size) ==
    LET user_id == None
        search_results_df == Filter(AllRows, {i \in RowIdx : matches(i, query)})
        keep == {i \in RowIdx :
                    not_rated(find_tmdb_ids(L, user_id), find_tmdb_ids(D, user_id), i)}
        scoped == IF scope = "recommended"
                  THEN Filter(search_results_df, keep)
                  ELSE search_results_df
    IN  paged_result(scoped, page, page_size)

-----------------------------------------------------------------------------
(* main.py: the read routes.                                                *)

\* a list-shaped response
ListResp(op, user_id, query, scope, r) ==
    [NoResp EXCEPT !.op = op, !.user = user_id, !.status = "200", !.msg = "list",
                   !.query = query, !.scope = scope,
                   !.page = r.page, !.page_size = r.page_size,
                   !.movies = r.movies,
                   !.scores = IF "scores" \in DOMAIN r THEN r.scores ELSE <<>>,
                   !.total_results = r.total_results,
                   !.total_pages = r.total_pages]

\* the answer of a read route whose try block raised: except Exception -> 500
ErrorResp(op, user_id, query, scope) ==
    [NoResp EXCEPT !.op = op, !.user = user_id, !.status = "500",
                   !.msg = "unexpected_error", !.query = query, !.scope = scope]

\* faulty variant of ReadRoute: the catalog is sorted in place
\* (sort_values(inplace=True) instead of a sorted copy), which reverses the
\* row order of this catalog
ReadRoute_in_place(response) ==
    /\ resp' = response
    /\ movies_df' = [i \in RowIdx |-> movies_df[Len(movies_df) + 1 - i]]
    /\ UNCHANGED <<likes_collection, dislikes_collection, sort_kind, conc>>

\* a read route answers and writes nothing
ReadRoute(response) ==
    /\ resp' = response
    /\ UNCHANGED <<likes_collection, dislikes_collection, movies_df, sort_kind, conc>>

recommend ==
    /\ Idle
    /\ \E u \in Users, page \in Pages, page_size \in PageSizes :
        ReadRoute(ListResp("recommend", u, <<>>, "-",
            recommend_content_based(likes_collection, dislikes_collection,
                                    u, page, page_size)))

\* the route requires a user for a scoped search and then calls
\* recommender_search_movies(query, scope, page, page_size), without the user
search_movies_endpoint ==
    /\ Idle
    /\ \E u \in Users, query \in Queries, scope \in Scopes,
          page \in Pages, page_size \in PageSizes :
        ReadRoute(IF search_raises(query)
                  THEN ErrorResp("search", u, query, scope)
                  ELSE ListResp("search", u, query, scope,
                           search_movies(likes_collection, dislikes_collection,
                                         query, scope, page, page_size)))

\* movies_df.sort_values(by=["vote_count", "vote_average"], ascending=False):
\* a sort on several columns is stable
popular_rows ==
    SortRows(AllRows,
        {p \in RowIdx \X RowIdx :
            \/ movies_df[p[1]].vote_count > movies_df[p[2]].vote_count
            \/ /\ movies_df[p[1]].vote_count = movies_df[p[2]].vote_count
               /\ \/ movies_df[p[1]].vote_average > movies_df[p[2]].vote_average
                  \/ /\ movies_df[p[1]].vote_average = movies_df[p[2]].vote_average
                     /\ p[1] < p[2]})

get_popular_movies ==
    /\ Idle
    /\ \E page \in Pages, page_size \in PageSizes :
        ReadRoute(ListResp("list_popular", "-", <<>>, "-",
            paged_result(popular_rows, page, page_size)))

\* movies_df.sort_values(by=["vote_count", "release_date"], ascending=[False, False])
all_rows_sorted ==
    SortRows(AllRows,
        {p \in RowIdx \X RowIdx :
            \/ movies_df[p[1]].vote_count > movies_df[p[2]].vote_count
            \/ /\ movies_df[p[1]].vote_count = movies_df[p[2]].vote_count
               /\ \/ movies_df[p[1]].release_date > movies_df[p[2]].release_date
                  \/ /\ movies_df[p[1]].release_date = movies_df[p[2]].release_date
                     /\ p[1] < p[2]})

get_all_movies ==
    /\ Idle
    /\ \E page \in Pages, page_size \in PageSizes :
        ReadRoute(ListResp("list_all", "-", <<>>, "-",
            paged_result(all_rows_sorted, page, page_size)))

\* movies_df[movies_df["tmdb_id"].isin(tmdb_ids)] for the user's entries
rated_rows(coll, user_id) ==
    Filter(AllRows, {i \in RowIdx : movies_df[i].tmdb_id \in find_tmdb_ids(coll, user_id)})

get_liked_movies ==
    /\ Idle
    /\ \E u \in Users, page \in Pages, page_size \in PageSizes :
        ReadRoute(ListResp("list_liked", u, <<>>, "-",
            paged_result(rated_rows(likes_collection, u), page, page_size)))

get_disliked_movies ==
    /\ Idle
    /\ \E u \in Users, page \in Pages, page_size \in PageSizes :
        ReadRoute(ListResp("list_disliked", u, <<>>, "-",
            paged_result(rated_rows(dislikes_collection, u), page, page_size)))

-----------------------------------------------------------------------------
\* the pending response is handed to the caller; the next call may start
Respond ==
    /\ ~Idle
    /\ resp' = NoResp
    /\ UNCHANGED <<likes_collection, dislikes_collection, movies_df, sort_kind, conc>>

Init ==
    /\ likes_collection = EmptyCollection
    /\ dislikes_collection = EmptyCollection
    /\ movies_df = Catalog
    /\ sort_kind \in {"stable", "unstable"}
    /\ resp = NoResp
    /\ conc = NoConc

Next ==
    \/ Call_like_movie
    \/ Call_dislike_movie
    \/ Call_undislike_movie
    \/ like
    \/ dislike
    \/ undislike
    \/ recommend
    \/ search_movies_endpoint
    \/ get_popular_movies
    \/ get_all_movies
    \/ get_liked_movies
    \/ get_disliked_movies
    \/ Respond

Spec == Init /\ [][Next]_vars

-----------------------------------------------------------------------------
(* like_movie(u, m) and dislike_movie(u, m) running at the same time (the   *)
(* routes are plain def handlers, which the server runs on worker threads). *)
(* The store makes each update_one / delete_one atomic; the functions take  *)
(* no lock, so the two store calls of one function may have calls of the    *)
(* other between them.                                                      *)

\* the two overlapping calls: like_movie at like_pc, dislike_movie at
\* dislike_pc, both for (user, tmdb_id)
ConcStart ==
    /\ Idle /\ conc = NoConc
    /\ \E u \in Users, m \in TmdbIds :
          conc' = [user |-> u, tmdb_id |-> m, like_pc |-> "check", dislike_pc |-> "check"]
    /\ UNCHANGED <<likes_collection, dislikes_collection, movies_df, sort_kind, resp>>

\* like_movie: if tmdb_id not in movies_df["tmdb_id"].values: raise ValueError
like_check ==
    /\ conc.like_pc = "check"
    /\ conc' = [conc EXCEPT !.like_pc =
                   IF conc.tmdb_id \notin CatalogIds THEN "raised" ELSE "upsert"]
    /\ UNCHANGED <<likes_collection, dislikes_collection, movies_df, sort_kind, resp>>

\* like_movie: likes_collection.update_one(..., upsert=True)
like_upsert ==
    /\ conc.like_pc = "upsert"
    /\ likes_collection' = update_one_upsert(likes_collection, conc.user, conc.tmdb_id)
    /\ conc' = [conc EXCEPT !.like_pc = "delete"]
    /\ UNCHANGED <<dislikes_collection, movies_df, sort_kind, resp>>

\* like_movie: dislikes_collection.delete_one(...), then it returns
like_delete ==
    /\ conc.like_pc = "delete"
    /\ dislikes_collection' = delete_one(dislikes_collection, conc.user, conc.tmdb_id)
    /\ conc' = [conc EXCEPT !.like_pc = "done"]
    /\ UNCHANGED <<likes_collection, movies_df, sort_kind, resp>>

\* dislike_movie: if tmdb_id not in movies_df["tmdb_id"].values: raise ValueError
dislike_check ==
    /\ conc.dislike_pc = "check"
    /\ conc' = [conc EXCEPT !.dislike_pc =
                   IF conc.tmdb_id \notin CatalogIds THEN "raised" ELSE "delete"]
    /\ UNCHANGED <<likes_collection, dislikes_collection, movies_df, sort_kind, resp>>

\* dislike_movie: likes_collection.delete_one(...)
dislike_delete ==
    /\ conc.dislike_pc = "delete"
    /\ likes_collection' = delete_one(likes_collection, conc.user, conc.tmdb_id)
    /\ conc' = [conc EXCEPT !.dislike_pc = "upsert"]
    /\ UNCHANGED <<dislikes_collection, movies_df, sort_kind, resp>>

\* dislike_movie: dislikes_collection.update_one(..., upsert=True), then it
\* returns
dislike_upsert ==
    /\ conc.dislike_pc = "upsert"
    /\ dislikes_collection' = update_one_upsert(dislikes_collection, conc.user, conc.tmdb_id)
    /\ conc' = [conc EXCEPT !.dislike_pc = "done"]
    /\ UNCHANGED <<likes_collection, movies_df, sort_kind, resp>>

\* both calls have returned or raised; the next pair of calls may start
ConcFinish ==
    /\ conc.like_pc \in {"done", "raised"}
    /\ conc.dislike_pc \in {"done", "raised"}
    /\ conc' = NoConc
    /\ UNCHANGED <<likes_collection, dislikes_collection, movies_df, sort_kind, resp>>

NextConc ==
    \/ ConcStart
    \/ like_check
    \/ like_upsert
    \/ like_delete
    \/ dislike_check
    \/ dislike_delete
    \/ dislike_upsert
    \/ ConcFinish

SpecConc == Init /\ [][NextConc]_vars

-----------------------------------------------------------------------------
(* Helpers of the properties below.                                         *)

Range(seq) == {seq[k] : k \in 1..Len(seq)}

Liked(u) == find_tmdb_ids(likes_collection, u)
Disliked(u) == find_tmdb_ids(dislikes_collection, u)

\* the pair the pending response is about
RespDoc == <<resp.user, resp.tmdb_id>>

\* the step is a completed direct call of op
CoreStep(op) == Idle /\ resp'.op = op

\* the list operation of response r asked again for another page and size
Again(r, page, page_size) ==
    CASE r.op = "recommend" ->
            recommend_content_based(likes_collection, dislikes_collection,
                                    r.user, page, page_size)
      [] r.op = "search" ->
            search_movies(likes_collection, dislikes_collection,
                          r.query, r.scope, page, page_size)
      [] r.op = "list_popular" -> paged_result(popular_rows, page, page_size)
      [] r.op = "list_all" -> paged_result(all_rows_sorted, page, page_size)
      [] r.op = "list_liked" ->
            paged_result(rated_rows(likes_collection, r.user), page, page_size)
      [] r.op = "list_disliked" ->
            paged_result(rated_rows(dislikes_collection, r.user), page, page_size)

RECURSIVE ConcatPages(_, _)
\* pages 1..n of response r's operation, one after the other
ConcatPages(r, n) ==
    IF n = 0 THEN <<>>
    ELSE ConcatPages(r, n - 1) \o Again(r, n, r.page_size).movies

\* the whole result of response r's operation: one page that holds it all
FullResult(r) ==
    Again(r, 1, IF r.total_results > 0 THEN r.total_results ELSE 1).movies

-----------------------------------------------------------------------------
(* C1: after any sequence of completed like, dislike and undislike calls,   *)
(* no (user_id, tmdb_id) pair is in both collections, and each collection   *)
(* holds at most one document per pair.                                     *)
C1_AtMostOneEdge ==
    \A d \in Docs :
        /\ likes_collection[d] <= 1
        /\ dislikes_collection[d] <= 1
        /\ ~(likes_collection[d] > 0 /\ dislikes_collection[d] > 0)

\* a dislike has completed for a pair while both collections hold documents
C1_Witness ==
    /\ resp.op = "dislike_movie" /\ resp.status = "returned"
    /\ dislikes_collection[RespDoc] = 1
    /\ \E d \in Docs : likes_collection[d] = 1
    /\ \E d \in Docs : d # RespDoc /\ dislikes_collection[d] = 1

(* C2: whatever edges (u, m) had before, a completed like(u, m) leaves      *)
(* exactly one LIKED and no DISLIKED document for the pair, and a completed *)
(* dislike(u, m) exactly one DISLIKED and no LIKED document; so like then   *)
(* dislike leaves one DISLIKED and zero LIKED.                              *)
C2_LikeDislikeReplace ==
    [][ /\ (CoreStep("like_movie") /\ resp'.status = "returned")
            => /\ likes_collection'[<<resp'.user, resp'.tmdb_id>>] = 1
               /\ dislikes_collection'[<<resp'.user, resp'.tmdb_id>>] = 0
        /\ (CoreStep("dislike_movie") /\ resp'.status = "returned")
            => /\ dislikes_collection'[<<resp'.user, resp'.tmdb_id>>] = 1
               /\ likes_collection'[<<resp'.user, resp'.tmdb_id>>] = 0 ]_vars

\* a like has completed for a pair, which leaves it liked and not disliked,
\* while the same user still dislikes another movie
C2_Witness ==
    /\ resp.op = "like_movie" /\ resp.status = "returned"
    /\ likes_collection[RespDoc] = 1 /\ dislikes_collection[RespDoc] = 0
    /\ Disliked(resp.user) # {}

(* C3: for a user with no LIKED edge, recommend fails with an error         *)
(* (NoPreferenceData) instead of returning a result.                        *)
C3_RecommendFailsWithoutLikes ==
    (resp.op = "recommend" /\ Liked(resp.user) = {}) => resp.status # "200"

(* C4: the movies recommend returns are never in the user's LIKED or        *)
(* DISLIKED set, and total_results is the number of catalog movies outside  *)
(* both sets.                                                               *)
C4_RecommendExcludesRated ==
    resp.op = "recommend" =>
        /\ Range(resp.movies) \cap (Liked(resp.user) \cup Disliked(resp.user)) = {}
        /\ resp.total_results =
             Cardinality(CatalogIds \ (Liked(resp.user) \cup Disliked(resp.user)))

\* the same for the users who have liked something (not a claim of its own:
\* it shows where C4 holds)
RecommendExcludesRatedWhenLiked ==
    (resp.op = "recommend" /\ Liked(resp.user) # {}) =>
        /\ Range(resp.movies) \cap (Liked(resp.user) \cup Disliked(resp.user)) = {}
        /\ resp.total_results =
             Cardinality(CatalogIds \ (Liked(resp.user) \cup Disliked(resp.user)))

(* C5: a well-formed like, dislike or undislike request of an authenticated *)
(* user that names a catalog tmdb_id is answered with a status message, not *)
(* with an internal error.                                                  *)
C5_MutationRouteSucceeds ==
    ( /\ resp.op \in {"like", "dislike", "undislike"}
      /\ resp.tmdb_id \in CatalogIds
      /\ resp.status # "422" )
    => resp.status = "200"

(* C6: search with scope 'liked' ('disliked') returns only movies that have *)
(* a LIKED (DISLIKED) edge for the user, and counts only those.             *)
C6_ScopedSearchFilters ==
    /\ (resp.op = "search" /\ resp.scope = "liked") =>
          /\ Range(resp.movies) \subseteq Liked(resp.user)
          /\ resp.total_results =
               Cardinality({i \in RowIdx : /\ matches(i, resp.query)
                                           /\ movies_df[i].tmdb_id \in Liked(resp.user)})
    /\ (resp.op = "search" /\ resp.scope = "disliked") =>
          /\ Range(resp.movies) \subseteq Disliked(resp.user)
          /\ resp.total_results =
               Cardinality({i \in RowIdx : /\ matches(i, resp.query)
                                           /\ movies_df[i].tmdb_id \in Disliked(resp.user)})

(* C7: search with scope 'recommended', for a user with at least one like,  *)
(* never returns a movie of the user's LIKED or DISLIKED set.               *)
C7_RecommendedSearchExcludesRated ==
    (resp.op = "search" /\ resp.scope = "recommended" /\ Liked(resp.user) # {})
    => Range(resp.movies) \cap (Liked(resp.user) \cup Disliked(resp.user)) = {}

(* C8: like, dislike and undislike called with a tmdb_id that is not in the *)
(* catalog fail with the not-found error (ValueError) and leave both        *)
(* collections exactly as they were.                                        *)
C8_UnknownMovieRejected ==
    [][ ( /\ Idle
          /\ resp'.op \in {"like_movie", "dislike_movie", "undislike_movie"}
          /\ resp'.tmdb_id \notin CatalogIds )
        => /\ resp'.status = "ValueError"
           /\ likes_collection' = likes_collection
           /\ dislikes_collection' = dislikes_collection ]_vars

\* a like of an unknown movie was refused while the store holds edges
C8_Witness ==
    /\ resp.op = "like_movie" /\ resp.tmdb_id \notin CatalogIds
    /\ resp.status = "ValueError"
    /\ Liked(resp.user) # {} /\ Disliked(resp.user) # {}

C10_Pagination ==
    resp.msg = "list" =>
        LET full == FullResult(resp)
            first == (resp.page - 1) * resp.page_size
            n == IF resp.total_results - first > resp.page_size THEN resp.page_size
                 ELSE IF resp.total_results - first > 0
                      THEN resp.total_results - first ELSE 0
        IN  /\ Len(full) = resp.total_results
            /\ resp.total_pages * resp.page_size >= resp.total_results
            /\ resp.total_results > 0 =>
                   (resp.total_pages - 1) * resp.page_size < resp.total_results
            /\ resp.total_results = 0 => resp.total_pages = 0
            /\ resp.movies = [k \in 1..n |-> full[first + k]]
            /\ ConcatPages(resp, resp.total_pages) = full
            /\ resp.page > resp.total_pages => resp.movies = <<>>
            /\ \A a, b \in 1..Len(full) : full[a] = full[b] => a = b

\* the short last page of a three-row result read two rows at a time
C10_Witness ==
    /\ resp.msg = "list"
    /\ resp.total_results = 3 /\ resp.page_size = 2 /\ resp.page = 2
    /\ resp.total_pages = 2 /\ Len(resp.movies) = 1

\* the catalog row of a tmdb_id
RowOf(tmdb_id) == CHOOSE i \in RowIdx : movies_df[i].tmdb_id = tmdb_id

\* the catalog rows of a user's LIKED / DISLIKED movies
LikedRows(u) == {i \in RowIdx : movies_df[i].tmdb_id \in Liked(u)}
DislikedRows(u) == {i \in RowIdx : movies_df[i].tmdb_id \in Disliked(u)}

(* C11: the whole result of recommend is ordered by score descending, and   *)
(* two movies of equal score appear in catalog (row) order.                 *)
C11_StableScoreOrder ==
    resp.op = "recommend" =>
        LET full == FullResult(resp)
            p == user_profile_vector(LikedRows(resp.user), DislikedRows(resp.user))
        IN  \A a, b \in 1..Len(full) :
                a < b =>
                    /\ ~score_greater(p, RowOf(full[b]), RowOf(full[a]))
                    /\ ~score_greater(p, RowOf(full[a]), RowOf(full[b]))
                           => RowOf(full[a]) < RowOf(full[b])

\* the part of C11 that does hold: the order is by score descending (not a
\* claim of its own)
ScoreOrderDescending ==
    resp.op = "recommend" =>
        LET full == FullResult(resp)
            p == user_profile_vector(LikedRows(resp.user), DislikedRows(resp.user))
        IN  \A a, b \in 1..Len(full) :
                a < b => ~score_greater(p, RowOf(full[b]), RowOf(full[a]))

\* the user's profile as the claim states it, mean of the LIKED vectors minus
\* mean of the DISLIKED vectors when there are any, as the fraction
\* ProfileNumer(u)[k] / ProfileDenom(u) per component
ProfileDenom(u) ==
    IF DislikedRows(u) # {}
    THEN Cardinality(LikedRows(u)) * Cardinality(DislikedRows(u))
    ELSE Cardinality(LikedRows(u))

ProfileNumer(u) ==
    [k \in VecIdx |->
        IF DislikedRows(u) # {}
        THEN (ProfileDenom(u) \div Cardinality(LikedRows(u))) * SumOver(LikedRows(u), k)
             - (ProfileDenom(u) \div Cardinality(DislikedRows(u))) * SumOver(DislikedRows(u), k)
        ELSE SumOver(LikedRows(u), k)]

\* the fraction s = <<numerator, denominator>> is the signed square of the
\* cosine of the angle between the user's profile and row i's vector (0 when
\* one of them is the zero vector); the positive ProfileDenom cancels in it
IsCosineOf(s, u, i) ==
    LET n == Len(tfidf_matrix[1])
        q == ProfileDenom(u)
        pv == Dot(ProfileNumer(u), tfidf_matrix[i], n)
        pp == Dot(ProfileNumer(u), ProfileNumer(u), n)
        vv == Dot(tfidf_matrix[i], tfidf_matrix[i], n)
    IN  /\ q > 0 /\ s[2] > 0
        /\ IF pp * vv = 0 THEN s[1] = 0
           ELSE s[1] * (pp * vv) * (q * q) = SignedSquare(pv) * s[2] * (q * q)

(* C13: the score recommend gives a movie is the cosine similarity of the   *)
(* movie's vector and the profile (mean of LIKED vectors, minus mean of     *)
(* DISLIKED vectors when there are any); movies come back by score          *)
(* descending, so for a user who likes only A = 11, B = 22 (closer to A)    *)
(* is ranked before C = 33.                                                 *)
C13_CosineScores ==
    (resp.op = "recommend" /\ Liked(resp.user) # {}) =>
        /\ Len(resp.scores) = Len(resp.movies)
        /\ \A k \in 1..Len(resp.movies) :
               IsCosineOf(resp.scores[k], resp.user, RowOf(resp.movies[k]))
        /\ \A k, l \in 1..Len(resp.scores) :
               k < l => resp.scores[k][1] * resp.scores[l][2]
                          >= resp.scores[l][1] * resp.scores[k][2]
        /\ (Liked(resp.user) = {11} /\ Disliked(resp.user) = {})
               => FullResult(resp) = <<22, 33>>

\* a recommendation whose only movie scores 0 because the disliked centroid
\* was subtracted: likes 11, dislikes 33, and 22 is orthogonal to (2, -2)
C13_Witness ==
    /\ resp.op = "recommend"
    /\ Liked(resp.user) = {11} /\ Disliked(resp.user) = {33}
    /\ resp.movies = <<22>> /\ resp.scores = << <<0, 16>> >>

ReadOps ==
    {"recommend", "search", "list_popular", "list_all", "list_liked", "list_disliked"}

MutationOps ==
    {"like_movie", "dislike_movie", "undislike_movie", "like", "dislike", "undislike"}

(* C14: recommend, search, list_popular, list_all, list_liked and           *)
(* list_disliked leave the likes collection, the dislikes collection and    *)
(* the catalog (rows, columns, row order) as they were, on the error and    *)
(* empty-result paths too; only like, dislike and undislike change the      *)
(* preference store, and nothing changes the catalog.                       *)
C14_ReadsWriteNothing ==
    [][ /\ (Idle /\ resp'.op \in ReadOps)
            => /\ likes_collection' = likes_collection
               /\ dislikes_collection' = dislikes_collection
               /\ movies_df' = movies_df
        /\ (likes_collection' # likes_collection
              \/ dislikes_collection' # dislikes_collection)
            => (Idle /\ resp'.op \in MutationOps)
        /\ movies_df' = movies_df ]_vars

\* a search that ended on its error path while the store holds edges
C14_Witness ==
    /\ resp.op = "search" /\ resp.status = "500"
    /\ Liked(resp.user) # {} /\ Disliked(resp.user) # {}

(* C12: when like(u, m) and dislike(u, m) run at the same time, each store  *)
(* call atomic and the calls of the two interleaved in any order, then once *)
(* both have completed the pair has exactly one edge, LIKED or DISLIKED:    *)
(* never both and never none.                                               *)
C12_ConcurrentLikeDislikeOneEdge ==
    (conc.like_pc = "done" /\ conc.dislike_pc = "done") =>
        likes_collection[<<conc.user, conc.tmdb_id>>]
          + dislikes_collection[<<conc.user, conc.tmdb_id>>] = 1

=============================================================================
